---- MODULE Spec2Model ----
(***************************************************************************)
(* Receipt parsing pipeline of asset-tracker-pro (python-ai service).      *)
(*                                                                         *)
(* SimpleBedrockReceiptParser.parse_receipt routes a document to PDF or    *)
(* image text extraction, structures the text with a second model call    *)
(* and wraps the outcome in an envelope.  simple_main.get_receipt_parser   *)
(* lazily constructs the one parser instance of the process.               *)
(*                                                                         *)
(* Python strings are TLA+ strings.  A Python value that may be of several *)
(* types, or a dict key that may be missing, is a cell [t, s]: t is the    *)
(* type tag and s the text of the value.                                   *)
(***************************************************************************)
EXTENDS Integers, Sequences, FiniteSets, TLC

(***************************************************************************)
(* Bounds of the model.                                                    *)
(***************************************************************************)
\* invocations of parse_receipt that may be in flight together (SpecDet)
MaxConcurrent == 2
\* successful constructions of the parser counted in one process
MaxConstructions == 2

(***************************************************************************)
(* Program constants.                                                      *)
(***************************************************************************)
\* extracted_text[:500] ... if len(extracted_text) > 500
PreviewLimit == 500
\* {extracted_text[:3000]} in the structuring prompt
PromptTextLimit == 3000

(***************************************************************************)
(* String helpers: str.startswith, str.endswith, str.lower, str.strip,     *)
(* slicing.                                                                *)
(***************************************************************************)
Min(a, b) == IF a < b THEN a ELSE b

Max(a, b) == IF a > b THEN a ELSE b

\* n copies of c, built by doubling
RECURSIVE Rep(_, _)
Rep(c, n) ==
  IF n = 0 THEN ""
  ELSE LET h == Rep(c, n \div 2)
       IN  h \o h \o (IF n % 2 = 1 THEN c ELSE "")

CharAt(s, i) == SubSeq(s, i, i)

\* s.startswith(p)
StartsWith(s, p) == Len(s) >= Len(p) /\ SubSeq(s, 1, Len(p)) = p

\* s.endswith(p)
EndsWith(s, p) == Len(s) >= Len(p) /\ SubSeq(s, Len(s) - Len(p) + 1, Len(s)) = p

\* s[:n]
SliceTo(s, n) == SubSeq(s, 1, Min(n, Len(s)))

\* s[n:]
SliceFrom(s, n) == SubSeq(s, Min(n, Len(s)) + 1, Len(s))

\* s[:-n]
DropLast(s, n) == SubSeq(s, 1, Max(Len(s) - n, 0))

UpperCase == <<"A", "B", "C", "D", "E", "F", "G", "H", "I", "J", "K", "L", "M",
               "N", "O", "P", "Q", "R", "S", "T", "U", "V", "W", "X", "Y", "Z">>

LowerCase == <<"a", "b", "c", "d", "e", "f", "g", "h", "i", "j", "k", "l", "m",
               "n", "o", "p", "q", "r", "s", "t", "u", "v", "w", "x", "y", "z">>

LowerChar(c) ==
  IF \E k \in 1..26 : UpperCase[k] = c
  THEN LowerCase[CHOOSE k \in 1..26 : UpperCase[k] = c]
  ELSE c

\* s.lower()
RECURSIVE Lower(_)
Lower(s) ==
  IF Len(s) = 0 THEN ""
  ELSE Lower(SubSeq(s, 1, Len(s) - 1)) \o LowerChar(CharAt(s, Len(s)))

Whitespace == {" ", "\t", "\n", "\r", "\f"}

\* s.strip()
Strip(s) ==
  LET keep == {i \in 1..Len(s) : CharAt(s, i) \notin Whitespace}
  IN  IF keep = {} THEN ""
      ELSE LET lo == CHOOSE i \in keep : \A j \in keep : i <= j
               hi == CHOOSE i \in keep : \A j \in keep : i >= j
           IN  SubSeq(s, lo, hi)

\* s.split('/')[-1]
LastSegment(s) ==
  LET cuts == {i \in 1..Len(s) : CharAt(s, i) = "/"}
  IN  IF cuts = {} THEN s
      ELSE SubSeq(s, (CHOOSE i \in cuts : \A j \in cuts : i >= j) + 1, Len(s))

\* '/' in s
HasSlash(s) == \E i \in 1..Len(s) : CharAt(s, i) = "/"

(***************************************************************************)
(* Python values.                                                          *)
(***************************************************************************)
Absent == [t |-> "absent", s |-> ""]

PyNone == [t |-> "null", s |-> ""]

PyStr(s) == [t |-> "str", s |-> s]

PyNum(s) == [t |-> "num", s |-> s]

\* mutant of Truthy: the test written as `if extracted_text is None`
M_Truthy(v) == v.t # "null"

\* bool(v) as used by `if not extracted_text`
Truthy(v) ==
  CASE v.t = "str" -> Len(v.s) > 0
    [] v.t = "num" -> v.s # "0"
    [] OTHER -> FALSE

Keys == {"item_name", "price", "date", "vendor", "warranty_period",
         "model_number", "description", "category"}

\* a decoded JSON document: an object with some of the keys, or another kind
Obj(f) == [kind |-> "object", fields |-> [k \in Keys |-> IF k \in DOMAIN f THEN f[k] ELSE Absent]]

NonObj(kind) == [kind |-> kind, fields |-> [k \in Keys |-> Absent]]

NoDoc == NonObj("none")

\* _create_fallback_response
FallbackResponse ==
  Obj([item_name       |-> PyStr("Unable to extract"),
       price           |-> PyNum("0"),
       date            |-> PyStr(""),
       vendor          |-> PyStr("Unable to extract"),
       warranty_period |-> PyNone,
       model_number    |-> PyNone,
       description     |-> PyStr("Manual entry required"),
       category        |-> PyStr("Other")])


(***************************************************************************)
(* Inputs: document bytes, filenames, content types.                       *)
(* Bytes are described by what PyMuPDF finds in them: whether they open as *)
(* a PDF and the text layer of each page.                                  *)
(***************************************************************************)
Files ==
  { [name |-> "widget-pdf-bytes", is_pdf |-> TRUE,
     pages |-> <<"STORE A / Widget / ", "$19.99 / 2024-01-05">>],
    [name |-> "blank-pdf-bytes", is_pdf |-> TRUE, pages |-> <<"", "">>],
    [name |-> "pdf-bytes-500", is_pdf |-> TRUE,
     pages |-> <<Rep("x", PreviewLimit - 1), "y">>],
    [name |-> "pdf-bytes-501", is_pdf |-> TRUE,
     pages |-> <<Rep("x", PreviewLimit), "y">>],
    [name |-> "png-bytes", is_pdf |-> FALSE, pages |-> <<"", "">>] }

Filenames == {"receipt.pdf", "SCAN.PDF", "photo.JPG", "scan.tiff", "notes.txt"}

ContentTypes == {"application/pdf", "image/png", "image/svg+xml", "application/zip"}

Inputs == [file : Files, filename : Filenames, content_type : ContentTypes]

NoInput ==
  [file |-> [name |-> "", is_pdf |-> FALSE, pages |-> <<"", "">>],
   filename |-> "", content_type |-> ""]

\* allowed_types of the HTTP layer; the accepted set of the interface
AcceptedTypes ==
  {"application/pdf", "image/jpeg", "image/jpg", "image/png", "image/gif",
   "image/bmp", "image/tiff", "image/webp"}

RasterExtensions == {".png", ".jpg", ".jpeg", ".gif", ".bmp"}

Categories ==
  {"Electronics", "Home Appliances", "Vehicles", "Furniture",
   "Tools & Equipment", "Jewelry", "Art & Collectibles",
   "Sports & Recreation", "Other"}

(***************************************************************************)
(* Messages.                                                               *)
(***************************************************************************)
UnsupportedPrefix == "Unsupported file type: "

NoTextMessage == "No text could be extracted from the file"

VisionSentinel == "Could not extract text from image"

\* str(e) of the TypeError raised by len() of a non-string text
LenTypeErrorMessage == "object of type 'int' has no len()"

\* str(e) of the exception invoke_model raises, by state of the credentials
TransportMessage(cred) ==
  CASE cred = "absent"  -> "Unable to locate credentials"
    [] cred = "invalid" -> "The security token included in the request is invalid."
    [] OTHER            -> "Could not connect to the endpoint URL"

(***************************************************************************)
(* The model endpoint: outcomes of one invoke_model call and of reading    *)
(* its response.                                                           *)
(***************************************************************************)
Raise(msg) == [kind |-> "raise", text |-> Absent, msg |-> msg]

\* response body without output.message
NoShape == [kind |-> "no_shape", text |-> Absent, msg |-> ""]

\* output.message present, content[0]['text'] missing: KeyError / IndexError
BadContent == [kind |-> "bad_content", text |-> Absent, msg |-> "'content'"]

Reply(v) == [kind |-> "text", text |-> v, msg |-> ""]

WidgetText == "STORE A / Widget / $19.99 / 2024-01-05"

VisionOutcomes ==
  { NoShape, BadContent,
    Reply(PyStr("")), Reply(PyStr(WidgetText)),
    Reply(PyStr(Rep("x", PreviewLimit + 1))),
    Reply(PyNum("5")), Reply(PyNone) }

JsonFull ==
  "{\"item_name\": \"Widget\", \"price\": 19.99, \"date\": \"05.01.2024\", \"vendor\": \"STORE A\", \"model_number\": null, \"description\": \"A widget\", \"category\": \"Electronics\"}"

JsonOffEnum ==
  "{\"item_name\": \"Widget\", \"price\": 19.99, \"date\": \"05.01.2024\", \"vendor\": \"STORE A\", \"model_number\": \"W-1\", \"description\": \"A widget\", \"category\": \"Gadgets\"}"

JsonPartial == "{\"item_name\": \"Widget\"}"

JsonArray == "[]"

\* what json.loads returns for the JSON texts of the model
JsonTable ==
  { [text |-> JsonFull,
     value |-> Obj([item_name |-> PyStr("Widget"), price |-> PyNum("19.99"),
                    date |-> PyStr("05.01.2024"), vendor |-> PyStr("STORE A"),
                    model_number |-> PyNone, description |-> PyStr("A widget"),
                    category |-> PyStr("Electronics")])],
    [text |-> JsonOffEnum,
     value |-> Obj([item_name |-> PyStr("Widget"), price |-> PyNum("19.99"),
                    date |-> PyStr("05.01.2024"), vendor |-> PyStr("STORE A"),
                    model_number |-> PyStr("W-1"), description |-> PyStr("A widget"),
                    category |-> PyStr("Gadgets")])],
    [text |-> JsonPartial, value |-> Obj([item_name |-> PyStr("Widget")])],
    [text |-> JsonArray, value |-> NonObj("array")] }

\* json.loads(s): the decoded value, or JSONDecodeError
json_loads(s) ==
  IF \E d \in JsonTable : d.text = s
  THEN [ok |-> TRUE, value |-> (CHOOSE d \in JsonTable : d.text = s).value]
  ELSE [ok |-> FALSE, value |-> NoDoc]

\* the backquote character (U+0060), which a TLA+ string cannot contain, is
\* written "~" in the strings of the model; no other string of the model uses "~"
Tick == "~"

\* the code-fence marker: three backquotes
Fence == Tick \o Tick \o Tick

StructReplyTexts ==
  { JsonFull, JsonOffEnum, JsonPartial, JsonArray,
    Fence \o "json\n" \o JsonFull \o "\n" \o Fence,
    "  " \o Fence \o "json\n" \o JsonFull \o "\n" \o Fence \o "\n",
    Fence \o "\n" \o JsonFull \o "\n" \o Fence,
    "not json", "" }

StructOutcomes ==
  {NoShape, BadContent, Reply(PyNum("5"))} \cup {Reply(PyStr(r)) : r \in StructReplyTexts}

(***************************************************************************)
(* The pipeline's pure steps.                                              *)
(***************************************************************************)
RECURSIVE ConcatPages(_)
ConcatPages(pages) ==
  IF Len(pages) = 0 THEN ""
  ELSE ConcatPages(SubSeq(pages, 1, Len(pages) - 1)) \o pages[Len(pages)]

\* fitz.open and get_text on the bytes: the text, or an exception
PdfOutcome(file) ==
  IF file.is_pdf THEN Reply(PyStr(ConcatPages(file.pages)))
  ELSE Raise("Failed to open stream")

\* extract_text_from_pdf: the text layers in page order; "" when fitz raises
extract_text_from_pdf(file) ==
  LET o == PdfOutcome(file)
  IN  IF o.kind = "text" THEN o.text.s ELSE ""

\* "format" of the image payload
ImageFormat(mime_type) ==
  IF HasSlash(mime_type) THEN LastSegment(mime_type) ELSE "png"

\* what the vision request depends on: the image bytes and the format
VisionRequest(file, mime_type) ==
  [image |-> file.name, format |-> ImageFormat(mime_type)]

\* mutant of extract_text_from_image: the except branch returns the sentinel
M_extract_text_from_image_raise(outcome) ==
  CASE outcome.kind = "text" -> outcome.text
    [] OTHER                 -> PyStr(VisionSentinel)

\* mutant of extract_text_from_image: the else branch returns empty text
M_extract_text_from_image_shape(outcome) ==
  CASE outcome.kind = "text" -> outcome.text
    [] OTHER                 -> PyStr("")

\* extract_text_from_image, given the outcome of its invoke_model call
extract_text_from_image(outcome) ==
  CASE outcome.kind = "text"     -> outcome.text
    [] outcome.kind = "no_shape" -> PyStr(VisionSentinel)
    [] OTHER                     -> PyStr("")

\* what the structuring request depends on: extracted_text[:3000]
StructRequest(text) == SliceTo(text, PromptTextLimit)

\* the clean-up of ai_response before json.loads
clean_response(ai_response) ==
  LET c1 == Strip(ai_response)
      c2 == IF StartsWith(c1, Fence \o "json") THEN SliceFrom(c1, 7) ELSE c1
      c3 == IF EndsWith(c2, Fence) THEN DropLast(c2, 3) ELSE c2
  IN  Strip(c3)

\* mutant of decode_response: an empty dict instead of the fallback record
M_decode_response(ai_response) ==
  LET d == json_loads(clean_response(ai_response))
  IN  IF d.ok THEN d.value ELSE Obj([x \in {} |-> Absent])

\* the inner try of parse_receipt_text: decode, or fall back on JSONDecodeError
decode_response(ai_response) ==
  LET d == json_loads(clean_response(ai_response))
  IN  IF d.ok THEN d.value ELSE FallbackResponse

\* parse_receipt_text, given the outcome of its invoke_model call
parse_receipt_text(outcome) ==
  IF outcome.kind = "text" /\ outcome.text.t = "str"
  THEN decode_response(outcome.text.s)
  ELSE FallbackResponse

\* mutant of Route: the image branch taken as a plain else
M_Route(content_type, filename) ==
  IF content_type = "application/pdf" \/ EndsWith(Lower(filename), ".pdf")
  THEN "pdf"
  ELSE "image"

\* mutant of Route: the image test placed before the PDF test
M_Route_image_first(content_type, filename) ==
  IF \/ StartsWith(content_type, "image/")
     \/ \E e \in RasterExtensions : EndsWith(Lower(filename), e)
  THEN "image"
  ELSE IF content_type = "application/pdf" \/ EndsWith(Lower(filename), ".pdf")
       THEN "pdf"
       ELSE "unsupported"

\* the routing of parse_receipt
Route(content_type, filename) ==
  IF content_type = "application/pdf" \/ EndsWith(Lower(filename), ".pdf")
  THEN "pdf"
  ELSE IF \/ StartsWith(content_type, "image/")
          \/ \E e \in RasterExtensions : EndsWith(Lower(filename), e)
       THEN "image"
       ELSE "unsupported"

\* mutant of Preview: >= in place of >
M_Preview(text) ==
  IF Len(text) >= PreviewLimit THEN SliceTo(text, PreviewLimit) \o "..." ELSE text

\* extracted_text[:500] + "..." if len(extracted_text) > 500 else extracted_text
Preview(text) ==
  IF Len(text) > PreviewLimit THEN SliceTo(text, PreviewLimit) \o "..." ELSE text

\* mutant of ErrorEnvelope: the error key left out
M_ErrorEnvelope(msg) ==
  [success |-> FALSE, error |-> Absent, extracted_text |-> Absent,
   data |-> FallbackResponse]

\* the envelopes parse_receipt returns
ErrorEnvelope(msg) ==
  [success |-> FALSE, error |-> PyStr(msg), extracted_text |-> Absent,
   data |-> FallbackResponse]

SuccessEnvelope(text, data) ==
  [success |-> TRUE, error |-> Absent, extracted_text |-> PyStr(Preview(text)),
   data |-> data]

NoResult ==
  [success |-> FALSE, error |-> Absent, extracted_text |-> Absent, data |-> NoDoc]

(***************************************************************************)
(* Deterministic model stubs: the reply is a function of the request.      *)
(***************************************************************************)
DetStubs == {1, 2}

VisionStub(k, req) ==
  IF k = 1
  THEN IF req.format = "png" THEN Reply(PyStr(WidgetText)) ELSE Reply(PyStr(""))
  ELSE IF req.format = "zip" THEN Reply(PyNum("5"))
       ELSE IF req.image = "png-bytes"
            THEN Reply(PyStr(Rep("x", PreviewLimit + 1)))
            ELSE NoShape

StructStub(k, req) ==
  IF k = 1
  THEN IF req = WidgetText THEN Reply(PyStr(JsonFull)) ELSE Reply(PyStr("not json"))
  ELSE IF Len(req) > 100
       THEN Reply(PyStr(Fence \o "json\n" \o JsonPartial \o "\n" \o Fence))
       ELSE Reply(PyStr(JsonOffEnum))

DetInputs ==
  { inp \in Inputs :
      /\ inp.file.name \in {"widget-pdf-bytes", "png-bytes"}
      /\ inp.filename \in {"receipt.pdf", "photo.JPG", "notes.txt"}
      /\ inp.content_type \in {"image/png", "application/zip"}
      /\ inp.content_type = "image/png" => inp.filename = "photo.JPG" }

(***************************************************************************)
(* State.                                                                  *)
(***************************************************************************)
\* the credential pair in the environment at process start
VARIABLE credentials

\* 0: any model behaviour; k > 0: deterministic stub k
VARIABLE stub

\* startup_event of simple_main: "pending" or "completed"
VARIABLE startup

\* the global of simple_main: "None" or "instance"
VARIABLE receipt_parser

\* outcome of the last get_receipt_parser call
VARIABLE get_status

\* per invocation of parse_receipt: where it is
VARIABLE pc

\* per invocation: (file_content, filename, content_type)
VARIABLE input

\* per invocation: the local extracted_text
VARIABLE extracted_text

\* per invocation: the extractor and model calls made
VARIABLE calls

\* per invocation: the envelope returned
VARIABLE result

\* the module the process runs: "simple_main", "vercel_main" or "api_index"
VARIABLE entrypoint

\* the name SimpleBedrockReceiptParser after the imports: "class", or "None"
\* when the import of api/index failed
VARIABLE parser_class

\* number of parsers constructed so far
VARIABLE constructed

\* identity of the object in the global (0 when it is None)
VARIABLE instance_id

\* identity of the object the last get_receipt_parser call returned (0: none)
VARIABLE returned_id

\* whether the last get_receipt_parser call ran the constructor
VARIABLE attempted

singleton == <<entrypoint, parser_class>>

vars == <<credentials, stub, startup, receipt_parser, get_status,
          pc, input, extracted_text, calls, result,
          entrypoint, parser_class, constructed, instance_id, returned_id,
          attempted>>

Slots == 1..MaxConcurrent

\* one entry of calls: the operation, how it ended, str(e) if it raised, and
\* the text segment of the reply if it had one
CallRecord(op, o) == [op |-> op, outcome |-> o.kind, msg |-> o.msg, reply |-> o.text]

\* outcomes of a vision / structuring invoke_model call in the current state
VisionReplies(req) ==
  IF credentials # "valid" THEN {Raise(TransportMessage(credentials))}
  ELSE IF stub = 0 THEN VisionOutcomes \cup {Raise(TransportMessage("valid"))}
  ELSE {VisionStub(stub, req)}

StructReplies(req) ==
  IF credentials # "valid" THEN {Raise(TransportMessage(credentials))}
  ELSE IF stub = 0 THEN StructOutcomes \cup {Raise(TransportMessage("valid"))}
  ELSE {StructStub(stub, req)}

InitCommon ==
  /\ credentials \in {"valid", "absent", "invalid"}
  /\ startup = IF entrypoint = "simple_main" THEN "pending" ELSE "completed"
  /\ parser_class \in
       IF entrypoint = "api_index" THEN {"class", "None"} ELSE {"class"}
  /\ constructed = 0
  /\ instance_id = 0
  /\ returned_id = 0
  /\ attempted = FALSE
  /\ receipt_parser = "None"
  /\ get_status = "none"
  /\ pc = [i \in Slots |-> "idle"]
  /\ input = [i \in Slots |-> NoInput]
  /\ extracted_text = [i \in Slots |-> PyStr("")]
  /\ calls = [i \in Slots |-> <<>>]
  /\ result = [i \in Slots |-> NoResult]

Entrypoints == {"simple_main", "vercel_main", "api_index"}

Init ==
  /\ entrypoint \in Entrypoints
  /\ InitCommon
  /\ stub = 0

InitDet ==
  /\ entrypoint = "simple_main"
  /\ InitCommon
  /\ stub \in DetStubs

(***************************************************************************)
(* simple_main: the parser singleton and startup.                          *)
(***************************************************************************)
\* SimpleBedrockReceiptParser(): __init__ reads the credential pair from the
\* environment and hands it to boto3 without checking it; whether boto3
\* raises does not depend on it
ConstructorOutcomes == {"ok", "raise"}

\* mutant of get_receipt_parser: the `is None` test left out
M_get_receipt_parser(global, outcome) ==
  IF outcome = "ok"
  THEN [global |-> "instance", status |-> "instance",
        attempted |-> TRUE, built |-> TRUE]
  ELSE [global |-> "None", status |-> "http_500",
        attempted |-> TRUE, built |-> FALSE]

\* get_receipt_parser of simple_main and of vercel_main: the new value of
\* the global, what the caller gets, whether the constructor ran and
\* whether it returned an object
get_receipt_parser(global, outcome) ==
  IF global = "None"
  THEN IF outcome = "ok"
       THEN [global |-> "instance", status |-> "instance",
             attempted |-> TRUE, built |-> TRUE]
       ELSE [global |-> "None", status |-> "http_500",
             attempted |-> TRUE, built |-> FALSE]
  ELSE [global |-> global, status |-> "instance",
        attempted |-> FALSE, built |-> FALSE]

\* get_receipt_parser of api/index: no attempt when the class was not
\* imported, and None returned when the constructor raises
get_receipt_parser_index(global, class, outcome) ==
  IF global = "None" /\ class # "None"
  THEN IF outcome = "ok"
       THEN [global |-> "instance", status |-> "instance",
             attempted |-> TRUE, built |-> TRUE]
       ELSE [global |-> "None", status |-> "returned_None",
             attempted |-> TRUE, built |-> FALSE]
  ELSE [global |-> global,
        status |-> IF global = "None" THEN "returned_None" ELSE "instance",
        attempted |-> FALSE, built |-> FALSE]

\* one call of the get_receipt_parser of the running module
GetParser(outcome) ==
  LET g == IF entrypoint = "api_index"
           THEN get_receipt_parser_index(receipt_parser, parser_class, outcome)
           ELSE get_receipt_parser(receipt_parser, outcome)
  IN  /\ g.built => constructed < MaxConstructions
      /\ receipt_parser' = g.global
      /\ get_status' = g.status
      /\ attempted' = g.attempted
      /\ constructed' = IF g.built THEN constructed + 1 ELSE constructed
      /\ instance_id' = IF g.built THEN constructed + 1
                        ELSE IF g.global = "None" THEN 0 ELSE instance_id
      /\ returned_id' = IF g.status = "instance" THEN instance_id' ELSE 0

\* startup_event of simple_main: calls get_receipt_parser, logs and swallows
\* its exception
StartupEvent(outcome) ==
  /\ entrypoint = "simple_main"
  /\ startup = "pending"
  /\ GetParser(outcome)
  /\ startup' = "completed"
  /\ UNCHANGED <<credentials, stub, pc, input, extracted_text, calls, result,
                 singleton>>

\* a later caller calls get_receipt_parser
GetReceiptParser(outcome) ==
  /\ startup = "completed"
  /\ GetParser(outcome)
  /\ UNCHANGED <<credentials, stub, startup, pc, input, extracted_text, calls,
                 result, singleton>>

(***************************************************************************)
(* parse_receipt, one step per extractor or model call.                    *)
(***************************************************************************)
\* parse_receipt is entered on the parser instance; the handler of
\* api/index never calls it
Call(i, inp) ==
  /\ entrypoint # "api_index"
  /\ receipt_parser = "instance"
  /\ pc[i] = "idle"
  /\ pc' = [pc EXCEPT ![i] = "route"]
  /\ input' = [input EXCEPT ![i] = inp]
  /\ extracted_text' = [extracted_text EXCEPT ![i] = PyStr("")]
  /\ calls' = [calls EXCEPT ![i] = <<>>]
  /\ result' = [result EXCEPT ![i] = NoResult]
  /\ UNCHANGED <<singleton, constructed, instance_id, returned_id, attempted,
                 credentials, stub, startup, receipt_parser, get_status>>

\* one event loop: parse_receipt has no await, so a call runs to its end
\* before the next one starts
SerialCall(i, inp) ==
  /\ \A j \in Slots : pc[j] = "idle"
  /\ Call(i, inp)

\* the else branch: unsupported file type
Unsupported(i) ==
  /\ pc[i] = "route"
  /\ Route(input[i].content_type, input[i].filename) = "unsupported"
  /\ result' = [result EXCEPT
       ![i] = ErrorEnvelope(UnsupportedPrefix \o input[i].content_type)]
  /\ pc' = [pc EXCEPT ![i] = "done"]
  /\ UNCHANGED <<singleton, constructed, instance_id, returned_id, attempted,
                 credentials, stub, startup, receipt_parser, get_status,
                 input, extracted_text, calls>>

\* the PDF branch
PdfExtract(i) ==
  /\ pc[i] = "route"
  /\ Route(input[i].content_type, input[i].filename) = "pdf"
  /\ extracted_text' = [extracted_text EXCEPT
       ![i] = PyStr(extract_text_from_pdf(input[i].file))]
  /\ calls' = [calls EXCEPT ![i] = Append(@,
       CallRecord("pdf_extract", PdfOutcome(input[i].file)))]
  /\ pc' = [pc EXCEPT ![i] = "extracted"]
  /\ UNCHANGED <<singleton, constructed, instance_id, returned_id, attempted,
                 credentials, stub, startup, receipt_parser, get_status,
                 input, result>>

\* the image branch: the vision call and its outcome
ImageExtract(i) ==
  /\ pc[i] = "route"
  /\ Route(input[i].content_type, input[i].filename) = "image"
  /\ \E o \in VisionReplies(VisionRequest(input[i].file, input[i].content_type)) :
       /\ extracted_text' = [extracted_text EXCEPT ![i] = extract_text_from_image(o)]
       /\ calls' = [calls EXCEPT ![i] = Append(@, CallRecord("vision", o))]
  /\ pc' = [pc EXCEPT ![i] = "extracted"]
  /\ UNCHANGED <<singleton, constructed, instance_id, returned_id, attempted,
                 credentials, stub, startup, receipt_parser, get_status,
                 input, result>>

\* mutant of LocalText: the text kept in one attribute of the shared instance
M_LocalText(i) == extracted_text[1]

\* the local variable extracted_text of invocation i
LocalText(i) == extracted_text[i]

\* if not extracted_text
NoText(i) ==
  /\ pc[i] = "extracted"
  /\ ~Truthy(LocalText(i))
  /\ result' = [result EXCEPT ![i] = ErrorEnvelope(NoTextMessage)]
  /\ pc' = [pc EXCEPT ![i] = "done"]
  /\ UNCHANGED <<singleton, constructed, instance_id, returned_id, attempted,
                 credentials, stub, startup, receipt_parser, get_status,
                 input, extracted_text, calls>>

\* parse_receipt_text with its structuring call, then the success envelope
Structure(i) ==
  /\ pc[i] = "extracted"
  /\ Truthy(LocalText(i))
  /\ LocalText(i).t = "str"
  /\ \E o \in StructReplies(StructRequest(LocalText(i).s)) :
       /\ calls' = [calls EXCEPT ![i] = Append(@, CallRecord("structuring", o))]
       /\ result' = [result EXCEPT
            ![i] = SuccessEnvelope(LocalText(i).s, parse_receipt_text(o))]
  /\ pc' = [pc EXCEPT ![i] = "done"]
  /\ UNCHANGED <<singleton, constructed, instance_id, returned_id, attempted,
                 credentials, stub, startup, receipt_parser, get_status,
                 input, extracted_text>>

\* a truthy text that is not a string: slicing it raises inside
\* parse_receipt_text before any call (fallback), then len() raises in
\* parse_receipt and the outer except builds the envelope
StructureNonText(i) ==
  /\ pc[i] = "extracted"
  /\ Truthy(LocalText(i))
  /\ LocalText(i).t # "str"
  /\ result' = [result EXCEPT ![i] = ErrorEnvelope(LenTypeErrorMessage)]
  /\ pc' = [pc EXCEPT ![i] = "done"]
  /\ UNCHANGED <<singleton, constructed, instance_id, returned_id, attempted,
                 credentials, stub, startup, receipt_parser, get_status,
                 input, extracted_text, calls>>

\* the caller has taken the envelope; the locals are gone
Return(i) ==
  /\ pc[i] = "done"
  /\ pc' = [pc EXCEPT ![i] = "idle"]
  /\ input' = [input EXCEPT ![i] = NoInput]
  /\ extracted_text' = [extracted_text EXCEPT ![i] = PyStr("")]
  /\ calls' = [calls EXCEPT ![i] = <<>>]
  /\ result' = [result EXCEPT ![i] = NoResult]
  /\ UNCHANGED <<singleton, constructed, instance_id, returned_id, attempted,
                 credentials, stub, startup, receipt_parser, get_status>>

Step(i) ==
  \/ Unsupported(i)
  \/ PdfExtract(i)
  \/ ImageExtract(i)
  \/ NoText(i)
  \/ Structure(i)
  \/ StructureNonText(i)
  \/ Return(i)

Next ==
  \/ \E o \in ConstructorOutcomes : StartupEvent(o)
  \/ \E o \in ConstructorOutcomes : GetReceiptParser(o)
  \/ \E i \in Slots, inp \in Inputs : SerialCall(i, inp)
  \/ \E i \in Slots : Step(i)

Spec == Init /\ [][Next]_vars

\* invocations in flight together, against a deterministic stub
NextDet ==
  \/ \E o \in ConstructorOutcomes : StartupEvent(o)
  \/ \E o \in ConstructorOutcomes : GetReceiptParser(o)
  \/ \E i \in Slots, inp \in DetInputs : Call(i, inp)
  \/ \E i \in Slots : Step(i)

SpecDet == InitDet /\ [][NextDet]_vars

(***************************************************************************)
(* Properties.                                                             *)
(***************************************************************************)
Done(i) == pc[i] = "done"

RequiredKeys == {"item_name", "price", "date", "vendor", "model_number",
                 "description", "category"}

\* a record carrying every required field
ValidRecord(d) ==
  /\ d.kind = "object"
  /\ \A k \in RequiredKeys : d.fields[k].t # "absent"

\* the sentinel values of the fallback record, field by field
IsSentinelRecord(d) ==
  /\ d.kind = "object"
  /\ d.fields["item_name"] = PyStr("Unable to extract")
  /\ d.fields["vendor"] = PyStr("Unable to extract")
  /\ d.fields["price"] = PyNum("0")
  /\ d.fields["date"] = PyStr("")
  /\ d.fields["model_number"] = PyNone
  /\ d.fields["description"] = PyStr("Manual entry required")
  /\ d.fields["category"] = PyStr("Other")

\* the calls of invocation i to the given operation
CallsOf(i, op) == {k \in 1..Len(calls[i]) : calls[i][k].op = op}

\* s occurs in t
Occurs(s, t) == \E k \in 1..(Len(t) - Len(s) + 1) : SubSeq(t, k, k + Len(s) - 1) = s

\* C1: every envelope parse_receipt returns, whatever the model replied,
\* carries a data field that is a record with all of item_name, price, date,
\* vendor, model_number, description and category.
C1_DataAlwaysValidRecord ==
  \A i \in Slots : Done(i) => ValidRecord(result[i].data)

\* C2: in every envelope parse_receipt returns, data.category is one of the
\* nine enumerated labels.
C2_CategoryEnumerated ==
  \A i \in Slots : Done(i) =>
    /\ result[i].data.kind = "object"
    /\ result[i].data.fields["category"].t = "str"
    /\ result[i].data.fields["category"].s \in Categories

\* what C3 promises of an invocation: the unsupported-type failure with the
\* fallback record, and neither an extraction nor a model call
RejectedAsUnsupported(i) ==
  /\ calls[i] = <<>>
  /\ Done(i) =>
       /\ result[i].success = FALSE
       /\ result[i].error.t = "str"
       /\ Occurs("Unsupported", result[i].error.s)
       /\ Occurs(input[i].content_type, result[i].error.s)
       /\ IsSentinelRecord(result[i].data)

\* C3 as stated: an input whose content type is outside the accepted set is
\* rejected as unsupported whatever its filename, without extraction or
\* model call.
C3_UnacceptedTypeRejected ==
  \A i \in Slots :
    (pc[i] # "idle" /\ input[i].content_type \notin AcceptedTypes)
      => RejectedAsUnsupported(i)

\* C3 amended: an input whose content type is neither application/pdf nor
\* starts with image/, and whose filename does not end, case-insensitively,
\* in .pdf, .png, .jpg, .jpeg, .gif or .bmp, is rejected as unsupported
\* with the fallback record, without extraction or model call.
C3_UnroutableRejected ==
  \A i \in Slots :
    ( /\ pc[i] # "idle"
      /\ input[i].content_type # "application/pdf"
      /\ ~StartsWith(input[i].content_type, "image/")
      /\ \A e \in {".pdf", ".png", ".jpg", ".jpeg", ".gif", ".bmp"} :
           ~EndsWith(Lower(input[i].filename), e) )
      => RejectedAsUnsupported(i)

\* witness of C3: application/zip with a .txt filename has been rejected
C3_Witness ==
  \E i \in Slots :
    /\ Done(i)
    /\ input[i].content_type = "application/zip"
    /\ input[i].filename = "notes.txt"
    /\ result[i].error = PyStr("Unsupported file type: application/zip")

\* C4: when a supported input yields empty extracted text, the envelope is
\* the no-text failure with the fallback record and no structuring call is
\* made.
C4_EmptyTextFails ==
  \A i \in Slots :
    (pc[i] \in {"extracted", "done"} /\ calls[i] # <<>> /\ extracted_text[i] = PyStr(""))
      => /\ CallsOf(i, "structuring") = {}
         /\ Done(i) =>
              /\ result[i].success = FALSE
              /\ result[i].error = PyStr("No text could be extracted from the file")
              /\ result[i].data = FallbackResponse

\* witness of C4: a vision call transcribed nothing and the call has failed
C4_Witness ==
  \E i \in Slots :
    /\ Done(i)
    /\ Len(calls[i]) = 1
    /\ calls[i][1].op = "vision"
    /\ calls[i][1].outcome = "text"
    /\ extracted_text[i] = PyStr("")
    /\ result[i].success = FALSE

\* the structuring call of invocation i failed to give JSON: the response
\* lacked the output/message shape, or the reply holds no JSON document
StructuringFailed(i) ==
  \E k \in CallsOf(i, "structuring") :
    \/ calls[i][k].outcome = "no_shape"
    \/ /\ calls[i][k].outcome = "text"
       /\ calls[i][k].reply.t = "str"
       /\ \A d \in JsonTable : ~Occurs(d.text, calls[i][k].reply.s)

\* C5: when extraction gave non-empty text and structuring fails, the
\* envelope has success true, carries the text preview and its data is the
\* fallback record exactly.
C5_StructuringFailureIsSuccess ==
  \A i \in Slots :
    ( /\ Done(i)
      /\ extracted_text[i].t = "str"
      /\ Len(extracted_text[i].s) > 0
      /\ StructuringFailed(i) )
      => /\ result[i].success = TRUE
         /\ result[i].extracted_text.t = "str"
         /\ SubSeq(result[i].extracted_text.s, 1, Min(500, Len(extracted_text[i].s)))
              = SubSeq(extracted_text[i].s, 1, Min(500, Len(extracted_text[i].s)))
         /\ result[i].data = FallbackResponse

\* witness of C5: the reply "not json" to a PDF's text
C5_Witness ==
  \E i \in Slots :
    /\ Done(i)
    /\ extracted_text[i] = PyStr(WidgetText)
    /\ Len(calls[i]) = 2
    /\ calls[i][2].op = "structuring"
    /\ calls[i][2].reply = PyStr("not json")
    /\ result[i].success = TRUE
    /\ result[i].data = FallbackResponse

\* C6: when the vision call or the structuring call raises a transport
\* error, the envelope has success false, its error is the exception's
\* message and its data is the fallback record.
C6_TransportErrorReported ==
  \A i \in Slots :
    Done(i) =>
      \A k \in CallsOf(i, "vision") \cup CallsOf(i, "structuring") :
        calls[i][k].outcome = "raise"
          => /\ result[i].success = FALSE
             /\ result[i].error = PyStr(calls[i][k].msg)
             /\ result[i].data = FallbackResponse

\* C7: in an envelope made from non-empty extracted text, the preview is
\* the text itself when the text has at most 500 characters, and its first
\* 500 characters followed by "..." otherwise; it never exceeds 503.
C7_TruncationLaw ==
  \A i \in Slots :
    (Done(i) /\ result[i].success)
      => LET text    == extracted_text[i].s
             preview == result[i].extracted_text.s
         IN  /\ result[i].extracted_text.t = "str"
             /\ Len(text) <= 500 => preview = text
             /\ Len(text) > 500 => preview = SubSeq(text, 1, 500) \o "..."
             /\ Len(preview) <= 503

\* witness of C7: a text of 501 characters has been cut to 503
C7_Witness ==
  \E i \in Slots :
    /\ Done(i)
    /\ result[i].success
    /\ Len(extracted_text[i].s) = 501
    /\ Len(result[i].extracted_text.s) = 503

\* C8: an envelope carries an error exactly when success is false.
C8_ErrorIffFailure ==
  \A i \in Slots :
    Done(i) =>
      /\ result[i].success = FALSE => result[i].error.t = "str"
      /\ result[i].success = TRUE => result[i].error.t = "absent"

\* witness of C8: a failure envelope with its error, after a vision call
C8_Witness ==
  \E i \in Slots :
    /\ Done(i)
    /\ result[i].success = FALSE
    /\ result[i].error.t = "str"
    /\ CallsOf(i, "vision") # {}

\* C9: against a deterministic stub, two invocations with the same bytes,
\* filename and content type return the same envelope, however they are
\* interleaved with each other and with other invocations.
C9_Idempotent ==
  \A i, j \in Slots :
    (Done(i) /\ Done(j) /\ input[i] = input[j]) => result[i] = result[j]

\* witness of C9: two invocations of the same image input have both
\* returned a success envelope
C9_Witness ==
  \E i, j \in Slots :
    /\ i # j
    /\ Done(i) /\ Done(j)
    /\ input[i] = input[j]
    /\ CallsOf(i, "vision") # {} /\ CallsOf(j, "structuring") # {}
    /\ result[i].success /\ result[j].success

\* C10: with the credential pair absent or invalid at process start, no
\* parser instance is installed and startup does not complete.
C10_MissingCredentialsFailStartup ==
  credentials # "valid" => (receipt_parser = "None" /\ startup # "completed")

\* the routing rule as the claim states it
PdfRule(inp) ==
  \/ inp.content_type = "application/pdf"
  \/ EndsWith(Lower(inp.filename), ".pdf")

ImageRule(inp) ==
  \/ StartsWith(inp.content_type, "image/")
  \/ \E e \in {".png", ".jpg", ".jpeg", ".gif", ".bmp"} : EndsWith(Lower(inp.filename), e)

\* C11: parse_receipt takes exactly one branch: PDF extraction if the
\* content type is application/pdf or the filename ends in .pdf whatever the
\* case (even with an image/ content type); otherwise image extraction if
\* the content type starts with image/ or the filename ends in a raster
\* extension; otherwise the unsupported-type failure.  It never runs both
\* extractors.
C11_Routing ==
  \A i \in Slots :
    pc[i] \in {"extracted", "done"} =>
      /\ CallsOf(i, "pdf_extract") = {} \/ CallsOf(i, "vision") = {}
      /\ PdfRule(input[i]) =>
           /\ calls[i] # <<>> /\ calls[i][1].op = "pdf_extract"
           /\ CallsOf(i, "vision") = {}
      /\ (~PdfRule(input[i]) /\ ImageRule(input[i])) =>
           /\ calls[i] # <<>> /\ calls[i][1].op = "vision"
           /\ CallsOf(i, "pdf_extract") = {}
      /\ (~PdfRule(input[i]) /\ ~ImageRule(input[i])) =>
           /\ calls[i] = <<>>
           /\ result[i].success = FALSE
           /\ StartsWith(result[i].error.s, "Unsupported file type")

\* witness of C11: image/png named receipt.pdf went to PDF extraction only
C11_Witness ==
  \E i \in Slots :
    /\ Done(i)
    /\ input[i].content_type = "image/png"
    /\ input[i].filename = "receipt.pdf"
    /\ CallsOf(i, "pdf_extract") # {}
    /\ CallsOf(i, "vision") = {}

\* the reply s is the JSON text j inside a code fence, with or without the
\* json language tag, with optional whitespace around
IsFenced(s, j) ==
  \E open \in {Fence \o "json\n", Fence \o "\n"} :
    Strip(s) = open \o j \o "\n" \o Fence

\* C12: when the structuring reply is a valid JSON object in a code fence,
\* with or without a language tag, the fence is stripped and the data of
\* the envelope is the decoded object, as for the unfenced reply.
C12_FenceStripped ==
  \A i \in Slots :
    Done(i) =>
      \A k \in CallsOf(i, "structuring") :
        \A d \in JsonTable :
          ( /\ calls[i][k].outcome = "text"
            /\ calls[i][k].reply.t = "str"
            /\ IsFenced(calls[i][k].reply.s, d.text) )
            => result[i].data = d.value

\* C13: in one invocation the vision call is made at most once and only on
\* the image branch, the structuring call at most once and only after
\* extraction returned non-empty text, and no outbound call follows a call
\* that raised.
C13_ForwardNoRetry ==
  \A i \in Slots :
    /\ Cardinality(CallsOf(i, "vision")) <= 1
    /\ Cardinality(CallsOf(i, "structuring")) <= 1
    /\ CallsOf(i, "vision") # {} =>
         /\ ~PdfRule(input[i]) /\ ImageRule(input[i])
         /\ CallsOf(i, "pdf_extract") = {}
    /\ \A k \in CallsOf(i, "structuring") :
         /\ k = 2
         /\ calls[i][1].op \in {"pdf_extract", "vision"}
         /\ extracted_text[i].t = "str"
         /\ Len(extracted_text[i].s) > 0
    /\ \A k \in CallsOf(i, "vision") \cup CallsOf(i, "structuring") :
         calls[i][k].outcome = "raise" => k = Len(calls[i])

\* witness of C13: the vision call raised and the invocation ended with
\* that one call
C13_Witness ==
  \E i \in Slots :
    /\ Done(i)
    /\ Len(calls[i]) = 1
    /\ calls[i][1].op = "vision"
    /\ calls[i][1].outcome = "raise"

\* C14: when the vision response lacks the output/message shape, the
\* extracted text is "Could not extract text from image"; parse_receipt
\* does not take the no-text path, makes the structuring call and reports
\* success true.
C14_SentinelGoesOn ==
  \A i \in Slots :
    ( /\ pc[i] \in {"extracted", "done"}
      /\ calls[i] # <<>>
      /\ calls[i][1].op = "vision"
      /\ calls[i][1].outcome = "no_shape" )
      => /\ extracted_text[i] = PyStr("Could not extract text from image")
         /\ Done(i) =>
              /\ CallsOf(i, "structuring") # {}
              /\ result[i].success = TRUE
              /\ result[i].error.t = "absent"
              /\ result[i].extracted_text = PyStr("Could not extract text from image")

\* witness of C14: the sentinel text was structured and success reported
C14_Witness ==
  \E i \in Slots :
    /\ Done(i)
    /\ Len(calls[i]) = 2
    /\ calls[i][1].op = "vision"
    /\ calls[i][1].outcome = "no_shape"
    /\ calls[i][2].op = "structuring"
    /\ result[i].success = TRUE

\* a step that is one call of get_receipt_parser
GetCall == \E o \in ConstructorOutcomes : StartupEvent(o) \/ GetReceiptParser(o)

\* what the caller of a failed construction gets in the running module
FailureReport == IF entrypoint = "api_index" THEN "returned_None" ELSE "http_500"

\* C15: over the get_receipt_parser calls of one process the parser is
\* constructed at most once; once the global is not None every call returns
\* that same instance without constructing; a failed construction leaves
\* the global None, reports the failure to its caller (HTTP 500 in
\* simple_main and vercel_main, None in api/index) and the next call
\* attempts the construction again.
C15_Singleton ==
  [][ /\ constructed' <= 1
      /\ receipt_parser # "None" =>
           /\ receipt_parser' = receipt_parser
           /\ instance_id' = instance_id
           /\ constructed' = constructed
           /\ GetCall =>
                /\ ~attempted'
                /\ get_status' = "instance"
                /\ returned_id' = instance_id
      /\ (GetCall /\ attempted' /\ constructed' = constructed) =>
           /\ receipt_parser' = "None"
           /\ instance_id' = 0
           /\ returned_id' = 0
           /\ get_status' = FailureReport
      /\ (GetCall /\ attempted /\ receipt_parser = "None") => attempted'
    ]_vars

\* witness of C15: after a construction that failed and one that succeeded,
\* a later call got the one instance without constructing
C15_Witness ==
  /\ entrypoint = "api_index"
  /\ receipt_parser = "instance"
  /\ constructed = 1
  /\ instance_id = 1
  /\ returned_id = 1
  /\ ~attempted
  /\ get_status = "instance"

====
